---- MODULE Spec2Model ----
(***************************************************************************)
(* A model of neli-wifi's nl80211 client:                                  *)
(*   - the attribute decoder  Interface::try_from  (src/src/interface.rs), *)
(*     stepped one attribute at a time under DecoderSpec;                  *)
(*   - the query drivers Socket::get_info / Socket::get_info_vec           *)
(*     (src/src/socket.rs), stepped one stream item at a time under Spec.  *)
(*                                                                         *)
(* TLC's integers are 32 bits wide, so the payloads the model draws are    *)
(* those whose little-endian value stays below 2^31.                       *)
(***************************************************************************)
EXTENDS Integers, Sequences, FiniteSets, TLC

VARIABLES
    de_strict,   \* whether the linked neli rejects a payload LONGER than the
                 \* type read from it (the crate is not part of src/)
    d_attrs,     \* decoder: the attributes attrs.iter() has yielded so far
    d_res,       \* decoder: `res`, the record under construction
    d_state,     \* decoder: "Iter" (in the for loop), "Ok", "Err"
    family_id,   \* Socket.family_id, resolved by connect()
    chan,        \* Socket.sock: the items sent by the kernel and not yet read
    sent,        \* the requests the kernel was sent, oldest first
    pc,          \* "Idle", "Receiving", "Returned", "Panicked"
    call,        \* the query method running or last run, with its arguments
    retval,      \* `retval` of the running query
    result,      \* what the query returned, NoResult until it returns
    consumed,    \* the items the query's iterator has yielded, in order
    chan_req,    \* for each item of chan, the request (its place in `sent`)
                 \* the kernel sent it in response to
    consumed_req \* the same for each item of consumed

dvars == <<d_attrs, d_res, d_state>>
qvars == <<family_id, chan, sent, pc, call, retval, result, consumed,
           chan_req, consumed_req>>
vars == <<de_strict, d_attrs, d_res, d_state,
          family_id, chan, sent, pc, call, retval, result, consumed,
          chan_req, consumed_req>>

----------------------------------------------------------------------------
(* Option<T> and Result<T, E> *)

None == [tag |-> "None"]
Some(v) == [tag |-> "Some", val |-> v]
Ok(v) == [ok |-> TRUE, val |-> v]
Err(e) == [ok |-> FALSE, err |-> e]

----------------------------------------------------------------------------
(* Bounds of the model *)

\* the longest attribute sequence the decoder is fed (Scenario A apart)
MaxAttrs == 3

\* the most items unread on the socket at any time (Scenario C apart)
MaxStream == 3

\* the most queries made on one Socket
MaxQueries == 2

----------------------------------------------------------------------------
(* Attributes: (nla_type.nla_type, nla_payload) *)

Attr(t, p) == [nla_type |-> t, nla_payload |-> p]

\* the tags Interface::try_from has an arm for
RecognizedTags ==
    {"AttrIfindex", "AttrSsid", "AttrMac", "AttrIfname", "AttrIftype",
     "AttrWiphyFreq", "AttrWiphyChannelType", "AttrChannelWidth",
     "AttrCenterFreq1", "AttrCenterFreq2", "AttrWiphyTxPowerLevel",
     "AttrWiphy", "AttrWdev"}

\* a tag of the nl80211 catalog that falls to the `_ => ()` arm
UnknownTags == {"AttrGeneration"}

Tags == RecognizedTags \cup UnknownTags

\* the payloads the model draws for a tag: for a 4-byte integer two of its
\* width and one longer, for the 8-byte integer two of its width and one
\* shorter, for a byte vector two of different lengths
PayloadsOf(t) ==
    CASE t \in {"AttrSsid", "AttrMac", "AttrIfname"} ->
            { <<3, 0, 0, 0>>, <<1, 0, 0, 0, 0, 0, 0, 0>> }
      [] t = "AttrWdev" ->
            { <<1, 0, 0, 0, 0, 0, 0, 0>>, <<2, 1, 0, 0, 0, 0, 0, 0>>,
              <<3, 0, 0, 0>> }
      [] t \in UnknownTags -> { <<3, 0, 0, 0>> }
      [] OTHER ->
            { <<3, 0, 0, 0>>, <<108, 9, 0, 0>>, <<1, 0, 0, 0, 0, 0, 0, 0>> }

Attrs == UNION { { Attr(t, p) : p \in PayloadsOf(t) } : t \in Tags }

\* the attribute vector of test_parser
ScenarioA ==
    << Attr("AttrIfindex", <<3, 0, 0, 0>>),
       Attr("AttrIfname", <<119, 108, 112, 53, 115, 48>>),
       Attr("AttrWiphy", <<0, 0, 0, 0>>),
       Attr("AttrIftype", <<2, 0, 0, 0>>),
       Attr("AttrWdev", <<1, 0, 0, 0, 0, 0, 0, 0>>),
       Attr("AttrMac", <<255, 255, 255, 255, 255, 255>>),
       Attr("AttrWiphyFreq", <<108, 9, 0, 0>>),
       Attr("AttrChannelWidth", <<1, 0, 0, 0>>),
       Attr("AttrWiphyTxPowerLevel", <<164, 6, 0, 0>>),
       Attr("AttrSsid", <<101, 100, 117, 114, 111, 97, 109>>) >>

----------------------------------------------------------------------------
(* The record *)

Fields ==
    {"iftype", "index", "ssid", "mac", "name", "frequency", "channel_type",
     "channel", "center_freq1", "center_freq2", "power", "phy", "device"}

\* #[derive(Default)]: every Option field is None
InterfaceDefault == [f \in Fields |-> None]

----------------------------------------------------------------------------
(* Payload readers *)

RECURSIVE FromLeBytes(_)
FromLeBytes(b) ==
    IF b = <<>> THEN 0 ELSE Head(b) + 256 * FromLeBytes(Tail(b))

\* two's complement of 4 little-endian bytes
FromLeBytesI32(b) ==
    LET low == FromLeBytes(SubSeq(b, 1, 3))
        top == IF b[4] >= 128 THEN b[4] - 256 ELSE b[4]
    IN  top * 16777216 + low

\* attr.get_payload_as::<R>() for an integer R of `width` bytes: the bytes
\* R is read from, or a DeError.  A payload shorter than R cannot be read;
\* whether a longer one is rejected is the linked crate's choice.
GetPayloadAs(payload, width) ==
    IF Len(payload) < width THEN Err("DeError")
    ELSE IF Len(payload) > width /\ de_strict THEN Err("DeError")
    ELSE Ok(SubSeq(payload, 1, width))

GetPayloadAsI32(payload) ==
    LET r == GetPayloadAs(payload, 4)
    IN  IF r.ok THEN Ok(FromLeBytesI32(r.val)) ELSE r

GetPayloadAsU32(payload) ==
    LET r == GetPayloadAs(payload, 4)
    IN  IF r.ok THEN Ok(FromLeBytes(r.val)) ELSE r

GetPayloadAsU64(payload) ==
    LET r == GetPayloadAs(payload, 8)
    IN  IF r.ok THEN Ok(FromLeBytes(r.val)) ELSE r

\* the payload cut at its trailing zero bytes, as for a C string
RECURSIVE TrimNul(_)
TrimNul(payload) ==
    IF payload # <<>> /\ payload[Len(payload)] = 0
    THEN TrimNul(SubSeq(payload, 1, Len(payload) - 1))
    ELSE payload
GetPayloadAsWithLenTrimmed(payload) == Ok(TrimNul(payload))

\* attr.get_payload_as_with_len::<Vec<u8>>(): the payload, whole
GetPayloadAsWithLen(payload) == Ok(payload)

----------------------------------------------------------------------------
(* Interface::try_from *)

\* the arms of the channel type and the channel width assigning each
\* other's field
FieldOfSwapped ==
    [t \in RecognizedTags |->
        CASE t = "AttrIfindex" -> "index"
          [] t = "AttrSsid" -> "ssid"
          [] t = "AttrMac" -> "mac"
          [] t = "AttrIfname" -> "name"
          [] t = "AttrIftype" -> "iftype"
          [] t = "AttrWiphyFreq" -> "frequency"
          [] t = "AttrWiphyChannelType" -> "channel"
          [] t = "AttrChannelWidth" -> "channel_type"
          [] t = "AttrCenterFreq1" -> "center_freq1"
          [] t = "AttrCenterFreq2" -> "center_freq2"
          [] t = "AttrWiphyTxPowerLevel" -> "power"
          [] t = "AttrWiphy" -> "phy"
          [] t = "AttrWdev" -> "device"]

\* the field each arm of the match assigns
FieldOf ==
    [t \in RecognizedTags |->
        CASE t = "AttrIfindex" -> "index"
          [] t = "AttrSsid" -> "ssid"
          [] t = "AttrMac" -> "mac"
          [] t = "AttrIfname" -> "name"
          [] t = "AttrIftype" -> "iftype"
          [] t = "AttrWiphyFreq" -> "frequency"
          [] t = "AttrWiphyChannelType" -> "channel_type"
          [] t = "AttrChannelWidth" -> "channel"
          [] t = "AttrCenterFreq1" -> "center_freq1"
          [] t = "AttrCenterFreq2" -> "center_freq2"
          [] t = "AttrWiphyTxPowerLevel" -> "power"
          [] t = "AttrWiphy" -> "phy"
          [] t = "AttrWdev" -> "device"]

\* the reader each arm calls, fixed by the type of the field it assigns
ReadPayload(t, payload) ==
    CASE t = "AttrIfindex" -> GetPayloadAsI32(payload)
      [] t \in {"AttrSsid", "AttrMac", "AttrIfname"} ->
            GetPayloadAsWithLen(payload)
      [] t = "AttrWdev" -> GetPayloadAsU64(payload)
      [] OTHER -> GetPayloadAsU32(payload)

\* the match with a default arm that rejects the tags it does not know
MatchAttrRejectUnknown(res, attr) ==
    IF attr.nla_type \in RecognizedTags
    THEN LET r == ReadPayload(attr.nla_type, attr.nla_payload)
         IN  IF r.ok
             THEN Ok([res EXCEPT ![FieldOf[attr.nla_type]] = Some(r.val)])
             ELSE r
    ELSE Err("DeError")

\* the match with arms that assign only a field still None
MatchAttrFirstWins(res, attr) ==
    IF attr.nla_type \in RecognizedTags
    THEN LET r == ReadPayload(attr.nla_type, attr.nla_payload)
         IN  IF r.ok
             THEN Ok(IF res[FieldOf[attr.nla_type]] = None
                     THEN [res EXCEPT ![FieldOf[attr.nla_type]] = Some(r.val)]
                     ELSE res)
             ELSE r
    ELSE Ok(res)

\* one turn of the for loop: the match on attr.nla_type.nla_type
MatchAttr(res, attr) ==
    IF attr.nla_type \in RecognizedTags
    THEN LET r == ReadPayload(attr.nla_type, attr.nla_payload)
         IN  IF r.ok
             THEN Ok([res EXCEPT ![FieldOf[attr.nla_type]] = Some(r.val)])
             ELSE r
    ELSE Ok(res)

\* the whole function: fold MatchAttr over attrs from `res`, `?` ending it
RECURSIVE FoldAttrs(_, _)
FoldAttrs(res, attrs) ==
    IF attrs = <<>> THEN Ok(res)
    ELSE LET r == MatchAttr(res, Head(attrs))
         IN  IF r.ok THEN FoldAttrs(r.val, Tail(attrs)) ELSE r

InterfaceTryFrom(attrs) == FoldAttrs(InterfaceDefault, attrs)

\* the decoder before it is called
DecoderIdle ==
    /\ d_attrs = <<>>
    /\ d_res = InterfaceDefault
    /\ d_state = "Iter"

----------------------------------------------------------------------------
(* The socket and what travels on it *)

\* NlPayload: the variant get_payload() returns Some for, and one of the
\* others (Ack, Err, Empty), for which it returns None
Payload(attrs) == [variant |-> "Payload", attrs |-> attrs]
Empty == [variant |-> "Empty"]

\* an item of sock.iter(): Ok(Nlmsghdr) or Err(NlError)
Msg(t, p) == [ok |-> TRUE, nl_type |-> t, nl_payload |-> p]
StreamErr == [ok |-> FALSE]

\* the attribute sequences of the data messages the kernel sends in the model:
\* two that decode, to different records, and one whose 8-byte field is short
MsgA == << Attr("AttrIfindex", <<3, 0, 0, 0>>),
           Attr("AttrGeneration", <<3, 0, 0, 0>>) >>
MsgB == << Attr("AttrIfindex", <<108, 9, 0, 0>>),
           Attr("AttrSsid", <<3, 0, 0, 0>>) >>
MsgBad == << Attr("AttrIfindex", <<3, 0, 0, 0>>),
             Attr("AttrWdev", <<3, 0, 0, 0>>) >>

Noop == Msg("Noop", Empty)
ErrorMarker == Msg("Error", Empty)
Done == Msg("Done", Empty)
Data(attrs) == Msg("Family", Payload(attrs))

\* a message of a type the match does not name, other than the family's own
Overrun(attrs) == Msg("Overrun", Payload(attrs))

Items ==
    {Noop, ErrorMarker, Done, StreamErr,
     Data(MsgA), Data(MsgB), Data(MsgBad), Overrun(MsgA)}

RECURSIVE SeqsUpTo(_, _)
SeqsUpTo(S, n) ==
    IF n = 0 THEN { <<>> }
    ELSE LET shorter == SeqsUpTo(S, n - 1)
         IN  shorter \cup { Append(q, x) : q \in { r \in shorter : Len(r) = n - 1 }, x \in S }

\* a dump of two records with a no-op marker between them
ScenarioC == << Data(MsgA), Noop, Data(MsgB), Done >>

\* the responses the kernel may queue
Streams == SeqsUpTo(Items, MaxStream) \cup {ScenarioC}

\* the interface indices callers pass, and the family ids connect() may resolve
IfIndexes == {3}
FamilyIds == {28}

NoCall == [method |-> "none"]
NoResult == [returned |-> FALSE]
Returned(r) == [returned |-> TRUE, value |-> r]

\* the state connect() leaves: nothing sent, nothing to read
SocketIdle ==
    /\ family_id \in FamilyIds
    /\ chan = <<>>
    /\ sent = <<>>
    /\ pc = "Idle"
    /\ call = NoCall
    /\ retval = None
    /\ result = NoResult
    /\ consumed = <<>>
    /\ chan_req = <<>>
    /\ consumed_req = <<>>

----------------------------------------------------------------------------
(* Socket::get_info and Socket::get_info_vec *)

\* <T as TryFrom<Attrs>>::try_from and T::default(), at T = Interface: the
\* record type whose definition and decoder src/ holds (Station and Bss are
\* decoded by the same generic code)
TryInto(attrs) == InterfaceTryFrom(attrs)
DefaultT == InterfaceDefault

\* the Nlmsghdr both methods build: Genlmsghdr::new(cmd, version, attrs)
\* under nl_type = family_id, flags Request | Dump
Nlmsghdr(cmd, attrs) ==
    [nl_type |-> family_id,
     nl_flags |-> {"Request", "Dump"},
     cmd |-> cmd,
     version |-> "NL_80211_GENL_VERSION",
     attrs |-> attrs]

\* what one turn of a receive loop does
Continue(rv) == [kind |-> "continue", retval |-> rv]
Break == [kind |-> "break"]
Panic == [kind |-> "panic"]
Return(r) == [kind |-> "return", value |-> r]

\* get_info keeping the first record decoded instead of the last
GetInfoBodyFirstWins(rv, response) ==
    IF ~response.ok THEN Panic
    ELSE CASE response.nl_type = "Noop" -> Continue(rv)
           [] response.nl_type = "Error" -> Panic
           [] response.nl_type = "Done" -> Break
           [] OTHER ->
                IF response.nl_payload.variant # "Payload" THEN Panic
                ELSE LET r == TryInto(response.nl_payload.attrs)
                     IN  IF r.ok
                         THEN Continue(IF rv = None THEN Some(r.val) ELSE rv)
                         ELSE Return(r)

\* get_info with a no-op marker resetting the accumulator
GetInfoBodyNoopResets(rv, response) ==
    IF ~response.ok THEN Panic
    ELSE CASE response.nl_type = "Noop" -> Continue(None)
           [] response.nl_type = "Error" -> Panic
           [] response.nl_type = "Done" -> Break
           [] OTHER ->
                IF response.nl_payload.variant # "Payload" THEN Panic
                ELSE LET r == TryInto(response.nl_payload.attrs)
                     IN  IF r.ok THEN Continue(Some(r.val)) ELSE Return(r)

\* the body of get_info's for loop
GetInfoBody(rv, response) ==
    IF ~response.ok THEN Panic
    ELSE CASE response.nl_type = "Noop" -> Continue(rv)
           [] response.nl_type = "Error" -> Panic
           [] response.nl_type = "Done" -> Break
           [] OTHER ->
                IF response.nl_payload.variant # "Payload" THEN Panic
                ELSE LET r == TryInto(response.nl_payload.attrs)
                     IN  IF r.ok THEN Continue(Some(r.val)) ELSE Return(r)

\* get_info failing when no message produced a value
GetInfoOkOrNoData(rv) == IF rv = None THEN Err("NoData") ELSE Ok(rv.val)

\* get_info's Ok(retval.unwrap_or_default())
GetInfoOk(rv) == Ok(IF rv = None THEN DefaultT ELSE rv.val)

\* get_info_vec inserting each record at the front of the list
GetInfoVecBodyPrepend(rv, response) ==
    IF ~response.ok THEN Panic
    ELSE CASE response.nl_type = "Noop" -> Continue(rv)
           [] response.nl_type = "Error" -> Panic
           [] response.nl_type = "Done" -> Break
           [] OTHER ->
                IF response.nl_payload.variant # "Payload" THEN Panic
                ELSE LET r == TryInto(response.nl_payload.attrs)
                     IN  IF r.ok THEN Continue(<<r.val>> \o rv) ELSE Return(r)

\* get_info_vec passing over a message it cannot decode
GetInfoVecBodySkipsMalformed(rv, response) ==
    IF ~response.ok THEN Panic
    ELSE CASE response.nl_type = "Noop" -> Continue(rv)
           [] response.nl_type = "Error" -> Panic
           [] response.nl_type = "Done" -> Break
           [] OTHER ->
                IF response.nl_payload.variant # "Payload" THEN Panic
                ELSE LET r == TryInto(response.nl_payload.attrs)
                     IN  IF r.ok THEN Continue(Append(rv, r.val)) ELSE Continue(rv)

\* get_info_vec reading on past a Done marker
GetInfoVecBodyReadsPastDone(rv, response) ==
    IF ~response.ok THEN Panic
    ELSE CASE response.nl_type = "Noop" -> Continue(rv)
           [] response.nl_type = "Error" -> Panic
           [] response.nl_type = "Done" -> Continue(rv)
           [] OTHER ->
                IF response.nl_payload.variant # "Payload" THEN Panic
                ELSE LET r == TryInto(response.nl_payload.attrs)
                     IN  IF r.ok THEN Continue(Append(rv, r.val)) ELSE Return(r)

\* get_info_vec decoding only the messages of the family's own type
GetInfoVecBodyFamilyOnly(rv, response) ==
    IF ~response.ok THEN Panic
    ELSE CASE response.nl_type = "Noop" -> Continue(rv)
           [] response.nl_type = "Error" -> Panic
           [] response.nl_type = "Done" -> Break
           [] response.nl_type = "Family" ->
                IF response.nl_payload.variant # "Payload" THEN Panic
                ELSE LET r == TryInto(response.nl_payload.attrs)
                     IN  IF r.ok THEN Continue(Append(rv, r.val)) ELSE Return(r)
           [] OTHER -> Continue(rv)

\* the body of get_info_vec's for loop
GetInfoVecBody(rv, response) ==
    IF ~response.ok THEN Panic
    ELSE CASE response.nl_type = "Noop" -> Continue(rv)
           [] response.nl_type = "Error" -> Panic
           [] response.nl_type = "Done" -> Break
           [] OTHER ->
                IF response.nl_payload.variant # "Payload" THEN Panic
                ELSE LET r == TryInto(response.nl_payload.attrs)
                     IN  IF r.ok THEN Continue(Append(rv, r.val)) ELSE Return(r)

\* get_info_vec's Ok(retval)
GetInfoVecOk(rv) == Ok(rv)

IsVec == call.method \in {"get_interfaces_info", "get_bss_info"}
Body(rv, response) ==
    IF IsVec THEN GetInfoVecBody(rv, response) ELSE GetInfoBody(rv, response)
LoopExit(rv) == IF IsVec THEN GetInfoVecOk(rv) ELSE GetInfoOk(rv)

\* a whole receive loop run from `rv` over the items `stream` yields:
\* where the method then stands, with what accumulator and what result
RECURSIVE Loop(_, _)
Loop(rv, stream) ==
    IF stream = <<>>
    THEN [pc |-> "Receiving", retval |-> rv, result |-> NoResult]
    ELSE LET o == Body(rv, Head(stream))
         IN  CASE o.kind = "continue" -> Loop(o.retval, Tail(stream))
               [] o.kind = "break" ->
                    [pc |-> "Returned", retval |-> rv,
                     result |-> Returned(LoopExit(rv))]
               [] o.kind = "return" ->
                    [pc |-> "Returned", retval |-> rv,
                     result |-> Returned(o.value)]
               [] o.kind = "panic" ->
                    [pc |-> "Panicked", retval |-> rv, result |-> NoResult]

\* the same when the iterator ends there: a loop still running falls out of
\* the for and the method returns the Ok(..) after it
LoopEnd(l) ==
    IF l.pc = "Receiving"
    THEN [pc |-> "Returned", retval |-> l.retval,
          result |-> Returned(LoopExit(l.retval))]
    ELSE l

\* self.sock.send(nlhdr)? succeeds: the kernel queues its response behind
\* whatever is still unread, and the method enters its loop
SendOk(method, index, nlhdr, rv0) ==
    /\ pc = "Idle"
    /\ Len(sent) < MaxQueries
    /\ \E response \in Streams :
          /\ \/ Len(chan) + Len(response) <= MaxStream
             \/ chan = <<>> /\ response = ScenarioC
          /\ chan' = chan \o response
          /\ chan_req' = chan_req \o [i \in 1..Len(response) |-> Len(sent) + 1]
    /\ sent' = Append(sent, nlhdr)
    /\ call' = [method |-> method, interface_index |-> index]
    /\ retval' = rv0
    /\ result' = NoResult
    /\ consumed' = <<>>
    /\ consumed_req' = <<>>
    /\ pc' = "Receiving"
    /\ UNCHANGED <<family_id, de_strict, dvars>>

\* a failed send ignored: the method goes on to read the socket
SendErrIgnored(method, index) ==
    /\ pc = "Idle"
    /\ Len(sent) < MaxQueries
    /\ call' = [method |-> method, interface_index |-> index]
    /\ retval' = IF method = "get_station_info" THEN None ELSE <<>>
    /\ result' = NoResult
    /\ consumed' = <<>>
    /\ consumed_req' = <<>>
    /\ pc' = "Receiving"
    /\ UNCHANGED <<family_id, chan, chan_req, sent, de_strict, dvars>>

\* self.sock.send(nlhdr)? fails: the method returns the error
SendErr(method, index) ==
    /\ pc = "Idle"
    /\ Len(sent) < MaxQueries
    /\ call' = [method |-> method, interface_index |-> index]
    /\ retval' = None
    /\ result' = Returned(Err("SendError"))
    /\ consumed' = <<>>
    /\ consumed_req' = <<>>
    /\ pc' = "Returned"
    /\ UNCHANGED <<family_id, chan, chan_req, sent, de_strict, dvars>>

\* the scoping attribute built under another attribute type
IfindexAttrAsWiphy(index) == Attr("AttrWiphy", index)

IfindexAttr(index) == Attr("AttrIfindex", index)

get_info(method, interface_index, cmd) ==
    \/ SendOk(method, Some(interface_index),
              Nlmsghdr(cmd, << IfindexAttr(interface_index) >>), None)
    \/ SendErr(method, Some(interface_index))

\* get_info_vec entering its loop with a list that is not empty
get_info_vecKeepsList(method, interface_index, cmd) ==
    \/ SendOk(method, interface_index,
              Nlmsghdr(cmd, IF interface_index = None THEN <<>>
                            ELSE << IfindexAttr(interface_index.val) >>),
              << DefaultT >>)
    \/ SendErr(method, interface_index)

get_info_vec(method, interface_index, cmd) ==
    \/ SendOk(method, interface_index,
              Nlmsghdr(cmd, IF interface_index = None THEN <<>>
                            ELSE << IfindexAttr(interface_index.val) >>),
              <<>>)
    \/ SendErr(method, interface_index)

get_interfaces_info ==
    get_info_vec("get_interfaces_info", None, "CmdGetInterface")

get_station_info(interface_index) ==
    get_info("get_station_info", interface_index, "CmdGetStation")

get_bss_info(interface_index) ==
    get_info_vec("get_bss_info", Some(interface_index), "CmdGetScan")

\* the iterator yields an item and the loop body runs on it
Recv(kind) ==
    /\ pc = "Receiving"
    /\ chan # <<>>
    /\ Body(retval, Head(chan)).kind = kind
    /\ chan' = Tail(chan)
    /\ consumed' = Append(consumed, Head(chan))
    /\ chan_req' = Tail(chan_req)
    /\ consumed_req' = Append(consumed_req, Head(chan_req))
    /\ UNCHANGED <<family_id, sent, call, de_strict, dvars>>

\* Nlmsg::Noop => (), or a message decoded and kept
RecvContinue ==
    /\ Recv("continue")
    /\ retval' = Body(retval, Head(chan)).retval
    /\ UNCHANGED <<pc, result>>

\* Nlmsg::Done => break, then the Ok(..) after the loop
RecvDone ==
    /\ Recv("break")
    /\ result' = Returned(LoopExit(retval))
    /\ pc' = "Returned"
    /\ UNCHANGED retval

\* try_into()? fails: the method returns the DeError
RecvDecodeErr ==
    /\ Recv("return")
    /\ result' = Returned(Body(retval, Head(chan)).value)
    /\ pc' = "Returned"
    /\ UNCHANGED retval

\* response.unwrap(), panic!("Error") or get_payload().unwrap() panics
RecvPanic ==
    /\ Recv("panic")
    /\ pc' = "Panicked"
    /\ UNCHANGED <<retval, result>>

\* the iterator ends: the Ok(..) after the loop
IterEnd ==
    /\ pc = "Receiving"
    /\ chan = <<>>
    /\ result' = Returned(LoopExit(retval))
    /\ pc' = "Returned"
    /\ UNCHANGED <<family_id, chan, sent, call, retval, consumed,
                   chan_req, consumed_req, de_strict, dvars>>

\* the caller has the method's result; the method's locals are gone
Finish ==
    /\ pc = "Returned"
    /\ pc' = "Idle"
    /\ call' = NoCall
    /\ retval' = None
    /\ result' = NoResult
    /\ consumed' = <<>>
    /\ consumed_req' = <<>>
    /\ UNCHANGED <<family_id, chan, chan_req, sent, de_strict, dvars>>

Init ==
    /\ de_strict \in BOOLEAN
    /\ DecoderIdle
    /\ SocketIdle

Next ==
    \/ get_interfaces_info
    \/ \E i \in IfIndexes : get_station_info(i)
    \/ \E i \in IfIndexes : get_bss_info(i)
    \/ RecvContinue
    \/ RecvDone
    \/ RecvDecodeErr
    \/ RecvPanic
    \/ IterEnd
    \/ Finish

Spec == Init /\ [][Next]_vars

----------------------------------------------------------------------------
(* The decoder, one attribute at a time *)

IsPrefix(s, t) == Len(s) <= Len(t) /\ SubSeq(t, 1, Len(s)) = s

DInit ==
    /\ de_strict \in BOOLEAN
    /\ DecoderIdle
    /\ SocketIdle

\* attrs.iter() yields attr; its arm assigns a field
DecodeAssign(attr) ==
    /\ d_state = "Iter"
    /\ \/ attr \in Attrs /\ Len(d_attrs) < MaxAttrs
       \/ IsPrefix(Append(d_attrs, attr), ScenarioA)
    /\ attr.nla_type \in RecognizedTags
    /\ MatchAttr(d_res, attr).ok
    /\ d_attrs' = Append(d_attrs, attr)
    /\ d_res' = MatchAttr(d_res, attr).val
    /\ UNCHANGED <<d_state, de_strict, qvars>>

\* attrs.iter() yields attr; reading its payload fails and `?` returns
DecodeFail(attr) ==
    /\ d_state = "Iter"
    /\ attr \in Attrs /\ Len(d_attrs) < MaxAttrs
    /\ ~MatchAttr(d_res, attr).ok
    /\ d_attrs' = Append(d_attrs, attr)
    /\ d_state' = "Err"
    /\ UNCHANGED <<d_res, de_strict, qvars>>

\* attrs.iter() yields attr; no arm names its tag
DecodeIgnore(attr) ==
    /\ d_state = "Iter"
    /\ attr \in Attrs /\ Len(d_attrs) < MaxAttrs
    /\ attr.nla_type \notin RecognizedTags
    /\ MatchAttr(d_res, attr).ok
    /\ d_attrs' = Append(d_attrs, attr)
    /\ d_res' = MatchAttr(d_res, attr).val
    /\ UNCHANGED <<d_state, de_strict, qvars>>

\* attrs.iter() is exhausted: Ok(res)
DecodeReturn ==
    /\ d_state = "Iter"
    /\ d_state' = "Ok"
    /\ UNCHANGED <<d_attrs, d_res, de_strict, qvars>>

DNext ==
    \/ \E attr \in Attrs \cup {ScenarioA[i] : i \in DOMAIN ScenarioA} :
          \/ DecodeAssign(attr)
          \/ DecodeFail(attr)
          \/ DecodeIgnore(attr)
    \/ DecodeReturn

DecoderSpec == DInit /\ [][DNext]_vars

----------------------------------------------------------------------------
(* Properties of the query methods, under Spec *)

Last(q) == q[Len(q)]

IsNoop(item) == item.ok /\ item.nl_type = "Noop"
IsErrorMarker(item) == item.ok /\ item.nl_type = "Error"
IsDone(item) == item.ok /\ item.nl_type = "Done"
IsDataMsg(item) == item.ok /\ item.nl_type \notin {"Noop", "Error", "Done"}
IsDecodable(item) ==
    /\ IsDataMsg(item)
    /\ item.nl_payload.variant = "Payload"
    /\ InterfaceTryFrom(item.nl_payload.attrs).ok
RecordOf(item) == InterfaceTryFrom(item.nl_payload.attrs).val

\* the query read decodable data messages and no-ops, then a Done marker
CleanDump ==
    /\ consumed # <<>>
    /\ IsDone(Last(consumed))
    /\ \A i \in 1..(Len(consumed) - 1) :
          IsNoop(consumed[i]) \/ IsDecodable(consumed[i])

DataRead == SelectSeq(consumed, IsDataMsg)

\* C1: a multi-record query that read N decodable data messages, no-ops
\* among them or not, and then a Done marker has returned Ok of exactly N
\* records, the i-th the decoding of the i-th data message read.
C1_DumpYieldsRecordsInOrder ==
    (pc = "Returned" /\ IsVec /\ CleanDump) =>
        /\ result.returned
        /\ result.value.ok
        /\ Len(result.value.val) = Len(DataRead)
        /\ \A i \in 1..Len(DataRead) :
              result.value.val[i] = RecordOf(DataRead[i])

\* Scenario C: [Data(A), Noop, Data(B), Done] has given [A, B]
C1_Witness ==
    /\ pc = "Returned"
    /\ call.method = "get_interfaces_info"
    /\ consumed = ScenarioC
    /\ result = Returned(Ok(<< InterfaceTryFrom(MsgA).val,
                               InterfaceTryFrom(MsgB).val >>))
    /\ InterfaceTryFrom(MsgA).val # InterfaceTryFrom(MsgB).val

\* C2: a query that read an error marker has ended by returning an error
\* value to its caller (Failed), not by aborting the process.
C2_ErrorMarkerReturnsError ==
    (consumed # <<>> /\ IsErrorMarker(Last(consumed))) =>
        /\ pc = "Returned"
        /\ result.returned
        /\ ~result.value.ok

\* C3: a single-record query that read one or more decodable data messages
\* and then a Done marker has returned Ok of the one record decoded from the
\* last data message read.
C3_LastRecordWins ==
    (pc = "Returned" /\ ~IsVec /\ CleanDump /\ DataRead # <<>>) =>
        result = Returned(Ok(RecordOf(Last(DataRead))))

\* Scenario B: [Data(A), Data(B), Done] has given B, which is not A
C3_Witness ==
    /\ pc = "Returned"
    /\ call.method = "get_station_info"
    /\ consumed = << Data(MsgA), Data(MsgB), Done >>
    /\ result = Returned(Ok(InterfaceTryFrom(MsgB).val))
    /\ InterfaceTryFrom(MsgA).val # InterfaceTryFrom(MsgB).val

\* C4: a single-record query that read a Done marker with no data message
\* before it (only no-ops, or nothing) has returned Ok of the record with
\* every field absent.
C4_DefaultWhenNoData ==
    (pc = "Returned" /\ ~IsVec /\ CleanDump /\ DataRead = <<>>) =>
        /\ result.returned
        /\ result.value.ok
        /\ DOMAIN result.value.val = Fields
        /\ \A f \in Fields : result.value.val[f] = [tag |-> "None"]

C4_Witness ==
    /\ pc = "Returned"
    /\ call.method = "get_station_info"
    /\ consumed = << Noop, Noop, Done >>
    /\ result.value.ok
    /\ result.value.val.index = None

\* C10: a no-op marker leaves the accumulator as it was, and whatever a
\* query has come to (its position, accumulator and result) after the
\* items it read is what its loop comes to on those items with every no-op
\* marker taken out.
C10_NoopIsSkipped ==
    (call # NoCall /\ result # Returned(Err("SendError"))) =>
        LET start == IF IsVec THEN <<>> ELSE None
            without == SelectSeq(consumed, LAMBDA item : ~IsNoop(item))
            here == [pc |-> pc, retval |-> retval, result |-> result]
        IN  \/ here = Loop(start, without)
            \/ here = LoopEnd(Loop(start, without))

C10_Witness ==
    /\ pc = "Returned"
    /\ call.method = "get_station_info"
    /\ consumed = << Data(MsgA), Noop, Done >>
    /\ result = Returned(Ok(InterfaceTryFrom(MsgA).val))

----------------------------------------------------------------------------
(* Properties of Interface::try_from, under DecoderSpec *)

\* the tag whose attribute each field of Interface is documented to hold
OwnTag ==
    [f \in Fields |->
        CASE f = "iftype" -> "AttrIftype"
          [] f = "index" -> "AttrIfindex"
          [] f = "ssid" -> "AttrSsid"
          [] f = "mac" -> "AttrMac"
          [] f = "name" -> "AttrIfname"
          [] f = "frequency" -> "AttrWiphyFreq"
          [] f = "channel_type" -> "AttrWiphyChannelType"
          [] f = "channel" -> "AttrChannelWidth"
          [] f = "center_freq1" -> "AttrCenterFreq1"
          [] f = "center_freq2" -> "AttrCenterFreq2"
          [] f = "power" -> "AttrWiphyTxPowerLevel"
          [] f = "phy" -> "AttrWiphy"
          [] f = "device" -> "AttrWdev"]

\* the declared width of each fixed-width field, in bytes
WidthOf(f) == IF f = "device" THEN 8 ELSE 4
IsBytesField(f) == f \in {"ssid", "mac", "name"}

\* the positions of d_attrs that hold tag t
PositionsOf(t) == { i \in DOMAIN d_attrs : d_attrs[i].nla_type = t }
Max(S) == CHOOSE m \in S : \A n \in S : n <= m

KnownOnly(attrs) ==
    SelectSeq(attrs, LAMBDA a : \E f \in Fields : OwnTag[f] = a.nla_type)

\* C5: unknown tags never make decoding fail, and at every point of the
\* decoding the outcome is that of decoding the attributes read so far
\* with the unknown-tag attributes taken out: the same record, or a failure
\* in both.
C5_UnknownTagsIgnored ==
    LET r == InterfaceTryFrom(KnownOnly(d_attrs))
    IN  IF d_state = "Err"
        THEN /\ ~r.ok
             /\ \E f \in Fields : OwnTag[f] = Last(d_attrs).nla_type
        ELSE r = Ok(d_res)

C5_Witness ==
    /\ d_state = "Ok"
    /\ Len(d_attrs) = 3
    /\ d_attrs[1].nla_type = "AttrIfindex"
    /\ d_attrs[2].nla_type \in UnknownTags
    /\ d_attrs[3].nla_type = "AttrSsid"
    /\ d_res.index # None /\ d_res.ssid # None

\* the value a field takes from a payload of its own width (any length, for
\* a byte field): the little-endian integer, or the bytes
LeValue(p, n) ==
    IF n = 4
    THEN p[1] + 256 * (p[2] + 256 * (p[3] + 256 * p[4]))
    ELSE p[1] + 256 * (p[2] + 256 * (p[3] + 256 * (p[4] + 256 *
            (p[5] + 256 * (p[6] + 256 * (p[7] + 256 * p[8]))))))
FieldValue(f, p) == IF IsBytesField(f) THEN p ELSE LeValue(p, WidthOf(f))
WellFormed(f, p) == IsBytesField(f) \/ Len(p) = WidthOf(f)

\* C7: when a recognized tag occurs twice or more with different
\* well-formed payloads, whatever lies between, the decoded field holds the
\* value of the latest occurrence.
C7_LastWriteWins ==
    d_state # "Err" =>
        \A f \in Fields :
            LET at == PositionsOf(OwnTag[f])
            IN  (/\ Cardinality(at) >= 2
                 /\ \A i \in at : WellFormed(f, d_attrs[i].nla_payload)
                 /\ \E i, j \in at : d_attrs[i].nla_payload # d_attrs[j].nla_payload)
                => d_res[f] = Some(FieldValue(f, d_attrs[Max(at)].nla_payload))

C7_Witness ==
    /\ d_state = "Ok"
    /\ d_attrs = << Attr("AttrWdev", <<1, 0, 0, 0, 0, 0, 0, 0>>),
                    Attr("AttrWiphy", <<3, 0, 0, 0>>),
                    Attr("AttrWdev", <<2, 1, 0, 0, 0, 0, 0, 0>>) >>
    /\ d_res.device = Some(258)

\* C8: at every point of the decoding a field is Some only if an attribute
\* with that field's own tag has been read, so a record decoded from a
\* sequence without tag T has field T absent.
C8_AbsenceFidelity ==
    \A f \in Fields :
        PositionsOf(OwnTag[f]) = {} => d_res[f] = [tag |-> "None"]

C8_Witness ==
    /\ d_state = "Ok"
    /\ Len(d_attrs) = 3
    /\ PositionsOf("AttrWiphyChannelType") = {}
    /\ PositionsOf("AttrChannelWidth") # {}
    /\ d_res.channel # None
    /\ d_res.channel_type = None

\* the record test_parser expects
ScenarioARecord ==
    [iftype |-> Some(2),
     index |-> Some(3),
     ssid |-> Some(<<101, 100, 117, 114, 111, 97, 109>>),
     mac |-> Some(<<255, 255, 255, 255, 255, 255>>),
     name |-> Some(<<119, 108, 112, 53, 115, 48>>),
     frequency |-> Some(2412),
     channel_type |-> None,
     channel |-> Some(1),
     center_freq1 |-> None,
     center_freq2 |-> None,
     power |-> Some(1700),
     phy |-> Some(0),
     device |-> Some(1)]

\* C9: decoding distinct recognized tags with well-formed payloads gives
\* the record with exactly the fields of the tags present populated, a
\* fixed-width field with the little-endian value of its payload and a
\* byte field with its payload unchanged; the ten attributes of Scenario A
\* give the record test_parser expects.
C9_ExactRecord ==
    /\ (/\ d_state = "Ok"
        /\ \A i \in DOMAIN d_attrs : \E f \in Fields :
              /\ OwnTag[f] = d_attrs[i].nla_type
              /\ WellFormed(f, d_attrs[i].nla_payload)
        /\ \A f \in Fields : Cardinality(PositionsOf(OwnTag[f])) <= 1)
       => \A f \in Fields :
             d_res[f] = IF PositionsOf(OwnTag[f]) = {} THEN None
                        ELSE Some(FieldValue(f,
                                 d_attrs[Max(PositionsOf(OwnTag[f]))].nla_payload))
    /\ (d_state = "Ok" /\ d_attrs = ScenarioA) => d_res = ScenarioARecord

C9_Witness ==
    /\ d_state = "Ok"
    /\ d_attrs = ScenarioA
    /\ Cardinality({ f \in Fields : d_res[f] # None }) = 10

----------------------------------------------------------------------------
(* Properties of a Socket used for one query after another, under Spec *)

\* the items of `items` that `reqs` gives to request n
ItemsOf(items, reqs, n) ==
    LET at == SelectSeq([i \in 1..Len(items) |-> i], LAMBDA i : reqs[i] = n)
    IN  [k \in 1..Len(at) |-> items[at[k]]]

\* what the kernel sent in response to the request of the query running
Response == ItemsOf(consumed \o chan, consumed_req \o chan_req, Len(sent))

\* a dump as the kernel sends it: messages, then one Done or error marker
IsProperDump(r) ==
    /\ r # <<>>
    /\ IsDone(Last(r)) \/ IsErrorMarker(Last(r))
    /\ \A i \in 1..(Len(r) - 1) :
          r[i].ok /\ ~IsDone(r[i]) /\ ~IsErrorMarker(r[i])

RequestSent == call # NoCall /\ result # Returned(Err("SendError"))

\* C11: with one query run after another on a Socket, a query that has
\* returned (Ok or Err) read only messages of the response to its own
\* request and left none of that response unread for a later query.
C11_OwnResponseDrained ==
    (pc = "Returned" /\ RequestSent /\ IsProperDump(Response)) =>
        /\ \A i \in DOMAIN chan_req : chan_req[i] # Len(sent)
        /\ \A i \in DOMAIN consumed_req : consumed_req[i] = Len(sent)

\* the last item read is a data message whose attributes do not decode
ReadMalformed ==
    /\ consumed # <<>>
    /\ IsDataMsg(Last(consumed))
    /\ Last(consumed).nl_payload.variant = "Payload"
    /\ ~InterfaceTryFrom(Last(consumed).nl_payload.attrs).ok

\* C12: a data message that does not decode ends the query there: the
\* method has returned the decode error, not a list or a record, and has
\* not gone on past the message.
C12_DecodeErrorAborts ==
    ReadMalformed =>
        /\ pc = "Returned"
        /\ result = Returned(Err("DeError"))

C12_Witness ==
    /\ call.method = "get_interfaces_info"
    /\ consumed = << Data(MsgA), Data(MsgBad) >>
    /\ chan = << Done >>
    /\ pc = "Returned"
    /\ result = Returned(Err("DeError"))

\* C13: a query whose iterator yielded a transport failure has ended by
\* returning an error value to its caller, as for an error marker, not by
\* aborting the process.
C13_StreamErrorReturnsError ==
    (consumed # <<>> /\ ~Last(consumed).ok) =>
        /\ pc = "Returned"
        /\ result.returned
        /\ ~result.value.ok

\* C14: a Done marker is the last item its query reads: the method has
\* returned Ok of what it had accumulated before the marker, whatever
\* follows the marker on the socket.
C14_DoneEndsTheLoop ==
    \A i \in DOMAIN consumed :
        IsDone(consumed[i]) =>
            /\ i = Len(consumed)
            /\ pc = "Returned"
            /\ LET start == IF IsVec THEN <<>> ELSE None
                   before == Loop(start, SubSeq(consumed, 1, i - 1))
               IN  /\ before.pc = "Receiving"
                   /\ result = Returned(LoopExit(before.retval))
                   /\ result.value.ok

\* Done is followed, in the same response, by an error marker, which is
\* still unread
C14_Witness ==
    /\ call.method = "get_interfaces_info"
    /\ consumed = << Data(MsgA), Done >>
    /\ chan = << ErrorMarker >>
    /\ chan_req = << 1 >>
    /\ pc = "Returned"
    /\ result = Returned(Ok(<< InterfaceTryFrom(MsgA).val >>))

CmdOf(method) ==
    CASE method = "get_interfaces_info" -> "CmdGetInterface"
      [] method = "get_station_info" -> "CmdGetStation"
      [] method = "get_bss_info" -> "CmdGetScan"

\* C15: the request a query sent carries the family id of the Socket, the
\* fixed version constant and the method's command; it has no attribute
\* for get_interfaces_info and, for the scoped methods, exactly the one
\* interface-index attribute with the caller's index; a query ends with a
\* value only as Ok, a send error or a decode error, never a build error.
C15_RequestAsBuilt ==
    /\ (pc # "Idle" /\ RequestSent) =>
          LET nlhdr == Last(sent)
          IN  /\ nlhdr.nl_type = family_id
              /\ nlhdr.version = "NL_80211_GENL_VERSION"
              /\ nlhdr.cmd = CmdOf(call.method)
              /\ nlhdr.attrs =
                    IF call.method = "get_interfaces_info" THEN <<>>
                    ELSE << [nla_type |-> "AttrIfindex",
                             nla_payload |-> call.interface_index.val] >>
    /\ (result.returned /\ ~result.value.ok) =>
          result.value.err \in {"SendError", "DeError"}

C15_Witness ==
    /\ pc = "Receiving"
    /\ call = [method |-> "get_bss_info", interface_index |-> Some(3)]
    /\ Len(sent) = 2
    /\ sent[1].attrs = <<>>
    /\ sent[1].cmd = "CmdGetInterface"
    /\ sent[2].attrs = << [nla_type |-> "AttrIfindex", nla_payload |-> 3] >>
    /\ sent[2].cmd = "CmdGetScan"

\* C16: a request goes out once, on the step that takes an idle Socket to
\* Receiving, and that step is the only way into Receiving; items are read
\* only while Receiving and without another send; a query whose send
\* failed returns the send error having sent and read nothing; a query
\* that has returned or aborted sends nothing more and does not resume.
C16_SentOnceBeforeReceiving ==
    [][ /\ (sent' # sent) =>
              /\ pc = "Idle" /\ pc' = "Receiving"
              /\ Len(sent') = Len(sent) + 1
              /\ SubSeq(sent', 1, Len(sent)) = sent
              /\ consumed' = <<>>
        /\ (pc # "Receiving" /\ pc' = "Receiving") =>
              /\ pc = "Idle"
              /\ sent' # sent
        /\ (chan' # chan /\ sent' = sent) =>
              /\ pc = "Receiving"
              /\ Len(consumed') = Len(consumed) + 1
        /\ (result' = Returned(Err("SendError"))) =>
              /\ sent' = sent
              /\ chan' = chan
              /\ consumed' = <<>>
        /\ (pc \in {"Returned", "Panicked"}) =>
              /\ sent' = sent
              /\ chan' = chan
              /\ pc' \in {pc, "Idle"}
      ]_vars

\* a send fails while earlier requests' items are still on the socket
C16_Witness ==
    /\ pc = "Returned"
    /\ result = Returned(Err("SendError"))
    /\ Len(sent) = 1
    /\ chan # <<>>
    /\ consumed = <<>>

\* C17: an item that is neither no-op, error marker nor Done, whatever its
\* type, and that carries a payload has been decoded: the query holds its
\* record, as the last of as many records as it read such items or as the
\* one record kept, or it has returned the decode error; it has not passed
\* over the item.
C17_OtherTypesAreData ==
    (/\ consumed # <<>>
     /\ IsDataMsg(Last(consumed))
     /\ Last(consumed).nl_payload.variant = "Payload") =>
        LET r == TryInto(Last(consumed).nl_payload.attrs)
        IN  IF r.ok
            THEN /\ pc \in {"Receiving", "Returned"}
                 /\ IF IsVec
                    THEN /\ Len(retval) = Len(DataRead)
                         /\ Last(retval) = r.val
                    ELSE retval = Some(r.val)
            ELSE /\ pc = "Returned"
                 /\ result = Returned(r)

C17_Witness ==
    /\ call.method = "get_interfaces_info"
    /\ consumed = << Data(MsgB), Overrun(MsgA) >>
    /\ pc = "Receiving"
    /\ retval = << InterfaceTryFrom(MsgB).val, InterfaceTryFrom(MsgA).val >>

\* C18: a query ends by returning: it never aborts; once it has read a
\* Done or error marker it has returned; and when the stream ran out with
\* no marker read it has returned Ok of what it had accumulated.
C18_QueryEndsInDoneOrFailed ==
    /\ pc # "Panicked"
    /\ (consumed # <<>>
        /\ (IsDone(Last(consumed)) \/ IsErrorMarker(Last(consumed)))) =>
          /\ pc = "Returned"
          /\ result.returned
    /\ (pc = "Returned" /\ RequestSent /\ chan = <<>>
        /\ \A i \in DOMAIN consumed :
              IsNoop(consumed[i]) \/ IsDecodable(consumed[i])) =>
          result = Returned(LoopExit(retval))

\* C19: no query changes family_id, and where a query stands, what it
\* holds and what it returns are those of its loop run from an empty
\* accumulator over the items this query read, so nothing an earlier query
\* decoded is in them and the same items give the same result.
C19_NoStateCrossesQueries ==
    /\ [][family_id' = family_id]_vars
    /\ [](family_id \in FamilyIds)
    /\ []((pc # "Idle" /\ RequestSent) =>
            LET l == Loop(IF IsVec THEN <<>> ELSE None, consumed)
                now == [pc |-> pc, retval |-> retval, result |-> result]
            IN  \/ now = l
                \/ chan = <<>> /\ now = LoopEnd(l))

\* a second get_interfaces_info on the Socket, each having read one record
C19_Witness ==
    /\ Len(sent) = 2
    /\ sent[1].cmd = "CmdGetInterface"
    /\ call.method = "get_interfaces_info"
    /\ consumed = << Data(MsgB), Done >>
    /\ consumed_req = << 2, 2 >>
    /\ chan = <<>>
    /\ pc = "Returned"
    /\ result = Returned(Ok(<< InterfaceTryFrom(MsgB).val >>))

====
